---- MODULE Spec2Model ----
(***************************************************************************)
(* State-machine model of the HMC5983 I2C magnetometer driver              *)
(* (flight/PiOS/Common/pios_hmc5983_i2c.c): PIOS_HMC5983_Init and its      *)
(* configure sequence, the worker task PIOS_HMC5983_Task, the interrupt    *)
(* handler PIOS_HMC5983_IRQHandler, PIOS_HMC5983_SetOrientation and the    *)
(* single-slot output queue.                                               *)
(*                                                                         *)
(* Threads: the board bring-up thread (callerPc) that calls Init once and  *)
(* then SetOrientation; the worker task (taskPc); the interrupt handler    *)
(* (one atomic step, it preempts every task); the downstream consumer of   *)
(* the output queue.  Kernel services (queue, semaphore, thread, I2C       *)
(* master) are not part of the driver file; they are modelled from their   *)
(* interface as the specification document describes them.                 *)
(***************************************************************************)
EXTENDS Integers, Sequences, FiniteSets, TLC

VARIABLES
    i2c_id,      \* argument of PIOS_HMC5983_Init: the bus handle
    cfg,         \* argument of PIOS_HMC5983_Init: the board's configuration record
    systime,     \* what PIOS_Thread_Systime() returns when the task reads it
    wire,        \* the data output bytes the device returns on a burst read
    dev,         \* the static device pointer: NULL or the address of the record
    d,           \* the heap record *dev (struct hmc5983_dev)
    mallocs,     \* device records obtained from PIOS_malloc
    frees,       \* device records given back with PIOS_free
    queue,       \* contents of the output queue
    queueMade,   \* number of queues created by PIOS_Queue_Create
    registered,  \* number of queues registered under PIOS_SENSOR_MAG
    extiWired,   \* PIOS_EXTI_Init has been called
    semaMade,    \* number of semaphores created
    semaCount,   \* state of the binary data-ready semaphore (0 empty, 1 signalled)
    semaInit,    \* the state the semaphore was created in
    busLog,      \* register writes issued through PIOS_HMC5983_Write, in order
    callerPc,    \* position of the bring-up thread
    initDone,    \* PIOS_HMC5983_Init has returned
    initRet,     \* its return value (meaningful when initDone)
    setLast,     \* last PIOS_HMC5983_SetOrientation call: argument, return, orientation before
    testLast,    \* last PIOS_HMC5983_Test call: return, what the ID read did
    irqLast,     \* last PIOS_HMC5983_IRQHandler call: outcome
    badGive,     \* Give_FromISR was called on a NULL or uninitialised handle
    halted,      \* a PIOS_Assert failed (or a wild pointer stopped the system)
    taskPc,      \* position of the worker task
    tasksMade,   \* number of worker tasks created
    sample_delay, \* the task's local sample_delay (milliseconds)
    now,         \* the task's local now: base timestamp of PIOS_Thread_Sleep_Until
    buffer_read, \* ReadMag's local buffer_read after the transfer
    txn_list,    \* the transaction list ReadMag handed to PIOS_I2C_Transfer last
    gives,       \* semaphore signals made by the interrupt handler
    coalesced,   \* signals made while the semaphore was already signalled
    takes,       \* successful PIOS_Semaphore_Take calls of the task
    xfers,       \* read_mag_and_rearm transactions issued by the task
    fails,       \* those of them whose I2C transfer failed
    sends,       \* PIOS_Queue_Send calls made by the task
    drops,       \* PIOS_Queue_Send calls that found the queue full
    consumed     \* samples dequeued by the consumer

vars == <<i2c_id, cfg, systime, wire, dev, d, mallocs, frees, queue, queueMade, registered, extiWired,
          semaMade, semaCount, semaInit, busLog, callerPc, initDone, initRet,
          setLast, testLast, irqLast, badGive, halted, taskPc, tasksMade, gives, coalesced,
          takes, xfers, fails, sends, drops, consumed, sample_delay, now,
          buffer_read, txn_list>>

(***************************************************************************)
(* Bounds of the model.                                                    *)
(***************************************************************************)
MaxEdges == 3
MaxCycles == 3
MaxInits == 2

(***************************************************************************)
(* Program constants.                                                      *)
(***************************************************************************)
NULL == 0
Uninit == -1
PIOS_HMC5983_DEV_MAGIC == 1032781549
PIOS_HMC5983_MAX_DOWNSAMPLE == 1

PIOS_HMC5983_CONFIG_REG_A == 0
PIOS_HMC5983_CONFIG_REG_B == 1
PIOS_HMC5983_MODE_REG == 2
PIOS_HMC5983_DATAOUT_XMSB_REG == 3

PIOS_HMC5983_MODE_CONTINUOUS == 0
PIOS_HMC5983_MODE_SINGLE == 1

\* Output data rate codes: bits 4:2 of register A, DO2..DO0 shifted left by two.
PIOS_HMC5983_ODR_0_75 == 0
PIOS_HMC5983_ODR_1_5 == 4
PIOS_HMC5983_ODR_3 == 8
PIOS_HMC5983_ODR_7_5 == 12
PIOS_HMC5983_ODR_15 == 16
PIOS_HMC5983_ODR_30 == 20
PIOS_HMC5983_ODR_75 == 24
PIOS_HMC5983_ODR_220 == 28
AllOdrCodes ==
    {PIOS_HMC5983_ODR_0_75, PIOS_HMC5983_ODR_1_5, PIOS_HMC5983_ODR_3,
     PIOS_HMC5983_ODR_7_5, PIOS_HMC5983_ODR_15, PIOS_HMC5983_ODR_30,
     PIOS_HMC5983_ODR_75, PIOS_HMC5983_ODR_220}

\* A uint32_t time value is kept as its two 16-bit halves, hi * 65536 + lo.
Half == 65536
Time32(hi, lo) == [hi |-> hi, lo |-> lo]
\* uint32_t addition of a non-negative increment, wrapping at 2^32.
AddU32(t, increment) ==
    Time32((t.hi + (t.lo + increment) \div Half) % Half, (t.lo + increment) % Half)

PIOS_HMC5983_TOP_0DEG == 0
PIOS_HMC5983_TOP_90DEG == 1
PIOS_HMC5983_TOP_180DEG == 2
PIOS_HMC5983_TOP_270DEG == 3
PIOS_HMC5983_BOTTOM_0DEG == 4
PIOS_HMC5983_BOTTOM_90DEG == 5
PIOS_HMC5983_BOTTOM_180DEG == 6
PIOS_HMC5983_BOTTOM_270DEG == 7
AllOrientations == PIOS_HMC5983_TOP_0DEG .. PIOS_HMC5983_BOTTOM_270DEG

\* Gain codes: bits 7:5 of register B, GN2..GN0 shifted left by five, and the
\* sensitivity (LSB per gauss) of each.
PIOS_HMC5983_GAIN_0_88 == 0
PIOS_HMC5983_GAIN_1_3 == 32
PIOS_HMC5983_GAIN_1_9 == 64
PIOS_HMC5983_GAIN_2_5 == 96
PIOS_HMC5983_GAIN_4_0 == 128
PIOS_HMC5983_GAIN_4_7 == 160
PIOS_HMC5983_GAIN_5_6 == 192
PIOS_HMC5983_GAIN_8_1 == 224
AllGainCodes ==
    {PIOS_HMC5983_GAIN_0_88, PIOS_HMC5983_GAIN_1_3, PIOS_HMC5983_GAIN_1_9,
     PIOS_HMC5983_GAIN_2_5, PIOS_HMC5983_GAIN_4_0, PIOS_HMC5983_GAIN_4_7,
     PIOS_HMC5983_GAIN_5_6, PIOS_HMC5983_GAIN_8_1}
PIOS_HMC5983_Sensitivity_0_88Ga == 1370
PIOS_HMC5983_Sensitivity_1_3Ga == 1090
PIOS_HMC5983_Sensitivity_1_9Ga == 820
PIOS_HMC5983_Sensitivity_2_5Ga == 660
PIOS_HMC5983_Sensitivity_4_0Ga == 440
PIOS_HMC5983_Sensitivity_4_7Ga == 390
PIOS_HMC5983_Sensitivity_5_6Ga == 330
PIOS_HMC5983_Sensitivity_8_1Ga == 230

\* Encoded field values of the configuration record the model draws from:
\* output data rate (bits 4:2 of register A), measurement mode (bits 1:0 of
\* register A), gain (bits 7:5 of register B).
OdrCodes == {16, 24}
MeasCodes == {0, 1}
GainCodes == {32, 224}
ModeCodes == {PIOS_HMC5983_MODE_CONTINUOUS, PIOS_HMC5983_MODE_SINGLE}
Orientations == {PIOS_HMC5983_TOP_0DEG, PIOS_HMC5983_BOTTOM_270DEG}

CfgSet ==
    [M_ODR : OdrCodes, Meas_Conf : MeasCodes, Gain : GainCodes, Mode : ModeCodes,
     Orientation : Orientations, exti_cfg : {NULL, 1}]

\* The bitwise OR of C on naturals.
RECURSIVE BitOr(_, _)
BitOr(a, b) ==
    IF a = 0 THEN b
    ELSE IF b = 0 THEN a
    ELSE (IF a % 2 = 1 \/ b % 2 = 1 THEN 1 ELSE 0) + 2 * BitOr(a \div 2, b \div 2)

\* Memory returned by PIOS_malloc: every field is uninitialised.
FreshRecord ==
    [i2c_id |-> Uninit, cfg |-> Uninit, queue |-> Uninit, task |-> Uninit,
     data_ready_sema |-> Uninit, magic |-> Uninit, orientation |-> Uninit]

\* PIOS_HMC5983_Validate: the set of values the call can return.  Reading an
\* uninitialised i2c_id yields any value, so both outcomes are possible.
PIOS_HMC5983_Validate(p, r) ==
    IF p = NULL THEN {-1}
    ELSE IF r.magic # PIOS_HMC5983_DEV_MAGIC THEN {-2}
    ELSE IF r.i2c_id = Uninit THEN {-3, 0}
    ELSE IF r.i2c_id = 0 THEN {-3}
    ELSE {0}

\* A burst read of the data output registers: X MSB, X LSB, Z MSB, Z LSB,
\* Y MSB, Y LSB.  This one holds the counts 256, -256 and 128.
S2Bytes == <<1, 0, 255, 0, 0, 128>>

\* The local buffer_read while no transfer has filled it: it is not
\* initialised, and no byte of it is a value the device wrote.
NoReading == <<Uninit, Uninit, Uninit, Uninit, Uninit, Uninit>>

\* The state before PIOS_HMC5983_Init is called: no device, nothing created.
InitState ==
    /\ dev = NULL
    /\ d = FreshRecord
    /\ mallocs = 0
    /\ frees = 0
    /\ queue = <<>>
    /\ queueMade = 0
    /\ registered = 0
    /\ extiWired = FALSE
    /\ semaMade = 0
    /\ semaCount = 0
    /\ semaInit = 0
    /\ busLog = <<>>
    /\ callerPc = "start"
    /\ initDone = FALSE
    /\ initRet = 0
    /\ setLast = [called |-> FALSE, arg |-> 0, ret |-> 0, before |-> Uninit]
    /\ testLast = [called |-> FALSE, ret |-> 0, txns |-> 0, completed |-> FALSE, id |-> <<>>]
    /\ irqLast = "none"
    /\ badGive = FALSE
    /\ halted = FALSE
    /\ taskPc = "none"
    /\ tasksMade = 0
    /\ gives = 0
    /\ coalesced = 0
    /\ takes = 0
    /\ xfers = 0
    /\ fails = 0
    /\ sends = 0
    /\ drops = 0
    /\ consumed = 0
    /\ sample_delay = Uninit
    /\ now = Time32(0, 0)
    /\ buffer_read = NoReading
    /\ txn_list = <<>>

Init ==
    /\ i2c_id \in {0, 1}
    /\ cfg \in CfgSet
    /\ systime = Time32(0, 0)
    /\ wire = S2Bytes
    /\ InitState

(***************************************************************************)
(* The bring-up thread: PIOS_HMC5983_Init, one action per step that        *)
(* another context can observe.                                            *)
(***************************************************************************)
inputVars == <<i2c_id, cfg, systime, wire>>
taskLocals == <<sample_delay, now, buffer_read, txn_list>>
taskVars == <<taskPc, takes, xfers, fails, sends, drops, taskLocals>>
heapVars == <<mallocs, frees>>
irqVars == <<irqLast, badGive, gives, coalesced>>
semaVars == <<semaMade, semaCount, semaInit>>
queueVars == <<queue, consumed>>

\* PIOS_HMC5983_Init returns ret to the bring-up thread.
InitReturn(ret) ==
    /\ initDone' = TRUE
    /\ initRet' = ret
    /\ callerPc' = "idle"

\* Variant of PIOS_HMC5983_alloc: the record is not freed when the queue
\* cannot be created.
PIOS_HMC5983_alloc_no_free(mallocOk, queueOk) ==
    IF ~mallocOk THEN
        [ptr |-> NULL, rec |-> d, mallocs |-> mallocs, frees |-> frees,
         queueMade |-> queueMade]
    ELSE IF ~queueOk THEN
        [ptr |-> NULL, rec |-> d, mallocs |-> mallocs + 1, frees |-> frees,
         queueMade |-> queueMade]
    ELSE
        [ptr |-> 1,
         rec |-> [FreshRecord EXCEPT !.magic = PIOS_HMC5983_DEV_MAGIC, !.queue = 1],
         mallocs |-> mallocs + 1, frees |-> frees, queueMade |-> queueMade + 1]

\* PIOS_HMC5983_alloc: malloc the record, set the magic, create the queue; a
\* failed queue creation frees the record again.  The result: the pointer
\* returned, the record it points to, and the heap and queue counts after.
PIOS_HMC5983_alloc(mallocOk, queueOk) ==
    IF ~mallocOk THEN
        [ptr |-> NULL, rec |-> d, mallocs |-> mallocs, frees |-> frees,
         queueMade |-> queueMade]
    ELSE IF ~queueOk THEN
        [ptr |-> NULL, rec |-> d, mallocs |-> mallocs + 1, frees |-> frees + 1,
         queueMade |-> queueMade]
    ELSE
        [ptr |-> 1,
         rec |-> [FreshRecord EXCEPT !.magic = PIOS_HMC5983_DEV_MAGIC, !.queue = 1],
         mallocs |-> mallocs + 1, frees |-> frees, queueMade |-> queueMade + 1]

\* dev = PIOS_HMC5983_alloc(); if (dev == NULL) return -1;
Init_alloc ==
    /\ ~halted
    /\ callerPc = "start"
    /\ \E mallocOk \in BOOLEAN, queueOk \in BOOLEAN :
        LET a == PIOS_HMC5983_alloc(mallocOk, queueOk) IN
        /\ dev' = a.ptr
        /\ d' = a.rec
        /\ mallocs' = a.mallocs
        /\ frees' = a.frees
        /\ queueMade' = a.queueMade
        /\ IF a.ptr = NULL THEN InitReturn(-1)
           ELSE callerPc' = "fields" /\ UNCHANGED <<initDone, initRet>>
    /\ UNCHANGED <<inputVars, queueVars, registered, extiWired, semaVars, busLog,
                   setLast, testLast, irqVars, halted, taskVars, tasksMade>>

\* dev->cfg = cfg; dev->i2c_id = i2c_id; dev->orientation = cfg->Orientation;
Init_fields ==
    /\ ~halted
    /\ callerPc = "fields"
    /\ d' = [d EXCEPT !.cfg = 1, !.i2c_id = i2c_id, !.orientation = cfg.Orientation]
    /\ callerPc' = "exti"
    /\ UNCHANGED <<inputVars, dev, heapVars, queueVars, queueMade, registered,
                   extiWired, semaVars, busLog, initDone, initRet, setLast, testLast, irqVars,
                   halted, taskVars, tasksMade>>

\* if (cfg->exti_cfg != NULL) { PIOS_EXTI_Init(cfg->exti_cfg); ... }
\* else { dev->data_ready_sema = NULL; }
Init_exti ==
    /\ ~halted
    /\ callerPc = "exti"
    /\ IF cfg.exti_cfg # NULL THEN
            /\ extiWired' = TRUE
            /\ callerPc' = "sema"
            /\ UNCHANGED d
       ELSE
            /\ d' = [d EXCEPT !.data_ready_sema = NULL]
            /\ callerPc' = "config_a"
            /\ UNCHANGED extiWired
    /\ UNCHANGED <<inputVars, dev, heapVars, queueVars, queueMade, registered,
                   semaVars, busLog, initDone, initRet, setLast, testLast, irqVars, halted,
                   taskVars, tasksMade>>

\* dev->data_ready_sema = PIOS_Semaphore_Create();
\* PIOS_Assert(dev->data_ready_sema != NULL);
Init_sema ==
    /\ ~halted
    /\ callerPc = "sema"
    /\ \E created \in BOOLEAN, initial \in {0, 1} :
        IF created THEN
            /\ d' = [d EXCEPT !.data_ready_sema = 1]
            /\ semaMade' = semaMade + 1
            /\ semaCount' = initial
            /\ semaInit' = initial
            /\ callerPc' = "config_a"
            /\ UNCHANGED halted
        ELSE
            /\ d' = [d EXCEPT !.data_ready_sema = NULL]
            /\ halted' = TRUE
            /\ UNCHANGED <<semaVars, callerPc>>
    /\ UNCHANGED <<inputVars, dev, heapVars, queueVars, queueMade, registered,
                   extiWired, busLog, initDone, initRet, setLast, testLast, irqVars, taskVars,
                   tasksMade>>

\* PIOS_HMC5983_Write(address, buffer): the possible results, each with the bus
\* log after the call.  An invalid device returns -1 before any transfer; else
\* one single-segment I2C write [address, buffer] is issued and its result
\* returned.
PIOS_HMC5983_Write(address, buffer) ==
    UNION {
        IF v # 0 THEN {[ret |-> -1, log |-> busLog]}
        ELSE {[ret |-> r,
               log |-> Append(busLog, [reg |-> address, val |-> buffer, ok |-> (r = 0)])]
              : r \in {0, -1}}
        : v \in PIOS_HMC5983_Validate(dev, d)}

\* Variant of ConfigWrite: the result of the write is not tested, Config goes
\* on to the next step whatever it was.
ConfigWrite_unchecked(at, address, buffer, next) ==
    /\ ~halted
    /\ callerPc = at
    /\ \E w \in PIOS_HMC5983_Write(address, buffer) :
        /\ busLog' = w.log
        /\ callerPc' = next
        /\ UNCHANGED <<initDone, initRet>>
    /\ UNCHANGED <<inputVars, dev, d, heapVars, queueVars, queueMade, registered,
                   extiWired, semaVars, setLast, testLast, irqVars, halted, taskVars,
                   tasksMade>>

\* One write of PIOS_HMC5983_Config: on failure Config returns -1 and Init
\* returns -2; on success control passes to the step named next.
ConfigWrite(at, address, buffer, next) ==
    /\ ~halted
    /\ callerPc = at
    /\ \E w \in PIOS_HMC5983_Write(address, buffer) :
        /\ busLog' = w.log
        /\ IF w.ret # 0 THEN InitReturn(-2)
           ELSE callerPc' = next /\ UNCHANGED <<initDone, initRet>>
    /\ UNCHANGED <<inputVars, dev, d, heapVars, queueVars, queueMade, registered,
                   extiWired, semaVars, setLast, testLast, irqVars, halted, taskVars,
                   tasksMade>>

\* Variant of Config_A: the temperature-compensation bit 0x80 is left out of
\* the value written to register A.
Config_A_without_TS ==
    ConfigWrite("config_a", PIOS_HMC5983_CONFIG_REG_A,
                BitOr(cfg.M_ODR, cfg.Meas_Conf), "config_b")

\* CRTL_REGA
Config_A ==
    ConfigWrite("config_a", PIOS_HMC5983_CONFIG_REG_A,
                BitOr(BitOr(128, cfg.M_ODR), cfg.Meas_Conf), "config_b")

\* CRTL_REGB
Config_B ==
    ConfigWrite("config_b", PIOS_HMC5983_CONFIG_REG_B, cfg.Gain, "config_mode")

\* Variant of Config_Mode: Config returns 0 without writing the mode register.
Config_Mode_omitted ==
    /\ ~halted
    /\ callerPc = "config_mode"
    /\ callerPc' = "register"
    /\ UNCHANGED <<inputVars, dev, d, heapVars, queueVars, queueMade, registered,
                   extiWired, semaVars, busLog, initDone, initRet, setLast, testLast, irqVars,
                   halted, taskVars, tasksMade>>

\* Mode register
Config_Mode ==
    ConfigWrite("config_mode", PIOS_HMC5983_MODE_REG, cfg.Mode, "register")

\* PIOS_SENSORS_Register(PIOS_SENSOR_MAG, dev->queue);
\* Variant of Init_register: Init signals the semaphore itself to start the
\* first acquisition.
Init_register_kick ==
    /\ ~halted
    /\ callerPc = "register"
    /\ registered' = registered + 1
    /\ callerPc' = "task"
    /\ semaCount' = IF d.data_ready_sema = 1 THEN 1 ELSE semaCount
    /\ gives' = IF d.data_ready_sema = 1 THEN gives + 1 ELSE gives
    /\ UNCHANGED <<inputVars, dev, d, heapVars, queueVars, queueMade, extiWired,
                   semaMade, semaInit, busLog, initDone, initRet, setLast, testLast,
                   irqLast, badGive, coalesced, halted, taskVars, tasksMade>>

Init_register ==
    /\ ~halted
    /\ callerPc = "register"
    /\ registered' = registered + 1
    /\ callerPc' = "task"
    /\ UNCHANGED <<inputVars, dev, d, heapVars, queueVars, queueMade, extiWired,
                   semaVars, busLog, initDone, initRet, setLast, testLast, irqVars, halted,
                   taskVars, tasksMade>>

\* dev->task = PIOS_Thread_Create(PIOS_HMC5983_Task, ...);
\* PIOS_Assert(dev->task != NULL); return 0;
Init_task ==
    /\ ~halted
    /\ callerPc = "task"
    /\ \E created \in BOOLEAN :
        IF created THEN
            /\ d' = [d EXCEPT !.task = 1]
            /\ taskPc' = "start"
            /\ tasksMade' = tasksMade + 1
            /\ InitReturn(0)
            /\ UNCHANGED halted
        ELSE
            /\ d' = [d EXCEPT !.task = NULL]
            /\ halted' = TRUE
            /\ UNCHANGED <<taskPc, tasksMade, initDone, initRet, callerPc>>
    /\ UNCHANGED <<inputVars, dev, heapVars, queueVars, queueMade, registered,
                   extiWired, semaVars, busLog, setLast, testLast, irqVars, taskLocals, takes, xfers, fails,
                   sends, drops>>

\* PIOS_HMC5983_SetOrientation(orientation), called by the bring-up thread
\* before or after Init.
PIOS_HMC5983_SetOrientation(orientation) ==
    /\ ~halted
    /\ callerPc \in {"start", "idle"}
    /\ \E v \in PIOS_HMC5983_Validate(dev, d) :
        IF v # 0 THEN
            /\ setLast' = [called |-> TRUE, arg |-> orientation, ret |-> -1,
                           before |-> d.orientation]
            /\ UNCHANGED d
        ELSE
            /\ d' = [d EXCEPT !.orientation = orientation]
            /\ setLast' = [called |-> TRUE, arg |-> orientation, ret |-> 0,
                           before |-> d.orientation]
    /\ UNCHANGED <<inputVars, dev, heapVars, queueVars, queueMade, registered,
                   extiWired, semaVars, busLog, callerPc, initDone, initRet, irqVars,
                   halted, taskVars, tasksMade, testLast>>

\* The identification registers of a genuine device read 'H', '4', '3'; the
\* model also has a device whose third byte is '2'.
IdH43 == <<72, 52, 51>>
DeviceIds == {IdH43, <<72, 52, 50>>}

\* What the four bytes of Test's local id may hold before anything is stored
\* in them: the array is not initialised.
StackIds == {IdH43, <<0, 0, 0>>}

\* PIOS_HMC5983_Read(address, buffer, len) on a buffer holding `before`,
\* with the device answering `answer`: an invalid device returns -1 with no
\* transaction and the buffer untouched; else the two-segment transaction is
\* issued and its result returned, the buffer being filled when it succeeds.
PIOS_HMC5983_Read(before, answer) ==
    UNION {
        IF v # 0 THEN {[ret |-> -1, txns |-> 0, buffer |-> before]}
        ELSE {[ret |-> 0, txns |-> 1, buffer |-> answer],
              [ret |-> -1, txns |-> 1, buffer |-> before]}
        : v \in PIOS_HMC5983_Validate(dev, d)}

\* Variant of PIOS_HMC5983_Test: the result of the ID read is checked before
\* the bytes are compared.
PIOS_HMC5983_Test_checked ==
    /\ ~halted
    /\ callerPc \in {"start", "idle"}
    /\ \E stack \in StackIds, answer \in DeviceIds :
        \E r \in PIOS_HMC5983_Read(stack, answer) :
            testLast' = [called |-> TRUE,
                         ret |-> IF r.ret = 0 /\ r.buffer = IdH43 THEN 0 ELSE -1,
                         txns |-> r.txns, completed |-> (r.ret = 0),
                         id |-> IF r.ret = 0 THEN answer ELSE <<>>]
    /\ UNCHANGED <<inputVars, dev, d, heapVars, queueVars, queueMade, registered,
                   extiWired, semaVars, busLog, callerPc, initDone, initRet, irqVars,
                   halted, taskVars, tasksMade, setLast>>

\* PIOS_HMC5983_Test: char id[4]; PIOS_HMC5983_ReadID(id), whose return
\* value is dropped; then id[0..2] is compared with 'H', '4', '3'.
PIOS_HMC5983_Test ==
    /\ ~halted
    /\ callerPc \in {"start", "idle"}
    /\ \E stack \in StackIds, answer \in DeviceIds :
        \E r \in PIOS_HMC5983_Read(stack, answer) :
            testLast' = [called |-> TRUE,
                         ret |-> IF r.buffer = IdH43 THEN 0 ELSE -1,
                         txns |-> r.txns, completed |-> (r.ret = 0),
                         id |-> IF r.ret = 0 THEN answer ELSE <<>>]
    /\ UNCHANGED <<inputVars, dev, d, heapVars, queueVars, queueMade, registered,
                   extiWired, semaVars, busLog, callerPc, initDone, initRet, irqVars,
                   halted, taskVars, tasksMade, setLast>>

(***************************************************************************)
(* The interrupt handler.                                                  *)
(***************************************************************************)
\* The task is blocked in PIOS_Semaphore_Take on the data-ready semaphore.
TaskBlockedInTake ==
    /\ taskPc = "loop"
    /\ d.data_ready_sema = 1
    /\ cfg.Mode = PIOS_HMC5983_MODE_CONTINUOUS
    /\ semaCount = 0

\* PIOS_Semaphore_Give_FromISR on a binary semaphore: the semaphore becomes
\* signalled (a signal given while it is signalled is absorbed); woken reports
\* whether a waiting task was readied.
Semaphore_Give_FromISR ==
    /\ semaCount' = 1
    /\ gives' = gives + 1
    /\ coalesced' = IF semaCount = 1 THEN coalesced + 1 ELSE coalesced
    /\ irqLast' = IF TaskBlockedInTake THEN "woken" ELSE "given"
    /\ UNCHANGED <<badGive, halted, semaMade, semaInit>>

\* PIOS_HMC5983_IRQHandler: if (Validate(dev) != 0) return false; else give
\* dev->data_ready_sema and return woken.  The handler runs to completion.
PIOS_HMC5983_IRQHandler ==
    /\ ~halted
    /\ \E v \in PIOS_HMC5983_Validate(dev, d) :
        IF v # 0 THEN
            /\ irqLast' = "rejected"
            /\ UNCHANGED <<badGive, gives, coalesced, semaVars, halted>>
        ELSE IF d.data_ready_sema = 1 THEN
            /\ gives < MaxEdges
            /\ Semaphore_Give_FromISR
        ELSE
            \* the handle is NULL or was never written: the give goes through
            \* a wild pointer, after which the system stops or runs on
            /\ badGive' = TRUE
            /\ irqLast' = "wild"
            /\ halted' \in BOOLEAN
            /\ UNCHANGED <<gives, coalesced, semaVars>>
    /\ UNCHANGED <<inputVars, dev, d, heapVars, queueVars, queueMade, registered,
                   extiWired, busLog, callerPc, initDone, initRet, setLast, testLast, taskVars,
                   tasksMade>>

(***************************************************************************)
(* The worker task PIOS_HMC5983_Task.                                      *)
(***************************************************************************)
\* uint32_t sample_delay = 1000 / <hz>f + 0.99999f: the float sum converted
\* to an integer by truncation, with the rate given in quarters of a hertz
\* (0.75 Hz = 3, 220 Hz = 880): 1000 / hz = 4000 / quarterHz.
RateToDelay(quarterHz) ==
    (4000 * 100000 + 99999 * quarterHz) \div (100000 * quarterHz)

\* switch (dev->cfg->M_ODR): the rate the task uses for each code.  The
\* last label is "case PIOS_HMC5983_ODR_75: default:".
SampleDelay(odr) ==
    CASE odr = PIOS_HMC5983_ODR_0_75 -> RateToDelay(3)
      [] odr = PIOS_HMC5983_ODR_1_5 -> RateToDelay(6)
      [] odr = PIOS_HMC5983_ODR_3 -> RateToDelay(12)
      [] odr = PIOS_HMC5983_ODR_7_5 -> RateToDelay(30)
      [] odr = PIOS_HMC5983_ODR_15 -> RateToDelay(60)
      [] odr = PIOS_HMC5983_ODR_30 -> RateToDelay(120)
      [] OTHER -> RateToDelay(300)

\* PIOS_Thread_Sleep_Until(&previous, increment): sleeps until previous +
\* increment and stores that deadline in previous (32-bit arithmetic).
PIOS_Thread_Sleep_Until(previous, increment) ==
    AddU32(previous, increment)

\* while (PIOS_HMC5983_Validate(dev) != 0) PIOS_Thread_Sleep(100);
\* then the sample period is computed, the system time read and the loop
\* entered.
Task_waitinit ==
    /\ ~halted
    /\ taskPc = "start"
    /\ \E v \in PIOS_HMC5983_Validate(dev, d) :
        IF v # 0
        THEN taskPc' = "start" /\ UNCHANGED <<sample_delay, now>>
        ELSE /\ taskPc' = "loop"
             /\ sample_delay' = SampleDelay(cfg.M_ODR)
             /\ now' = systime
    /\ UNCHANGED <<buffer_read, txn_list>>
    /\ UNCHANGED <<inputVars, dev, d, heapVars, queueVars, queueMade, registered,
                   extiWired, semaVars, busLog, callerPc, initDone, initRet, setLast, testLast,
                   irqVars, halted, tasksMade, takes, xfers, fails, sends, drops>>

\* Variant of WaitsOnSemaphore: the configured mode is not looked at.
WaitsOnSemaphore_any_mode ==
    d.data_ready_sema # NULL

\* The condition of the loop's first if: wait on the semaphore.
WaitsOnSemaphore ==
    /\ d.data_ready_sema # NULL
    /\ cfg.Mode = PIOS_HMC5983_MODE_CONTINUOUS

\* PIOS_Semaphore_Take(dev->data_ready_sema, PIOS_SEMAPHORE_TIMEOUT_MAX) == true
Task_take ==
    /\ ~halted
    /\ taskPc = "loop"
    /\ WaitsOnSemaphore
    /\ xfers < MaxCycles
    /\ semaCount = 1
    /\ semaCount' = 0
    /\ takes' = takes + 1
    /\ taskPc' = "read"
    /\ UNCHANGED <<inputVars, dev, d, heapVars, queueVars, queueMade, registered,
                   extiWired, semaMade, semaInit, busLog, callerPc, initDone, initRet,
                   setLast, testLast, irqVars, halted, tasksMade, taskLocals, xfers, fails, sends, drops>>

\* Variant of Task_take_failed: the continue is missing, so after the sleep
\* the task goes on to read the device.
Task_take_failed_no_continue ==
    /\ ~halted
    /\ taskPc = "loop"
    /\ WaitsOnSemaphore
    /\ xfers < MaxCycles
    /\ semaCount = 0
    /\ taskPc' = "read"
    /\ UNCHANGED <<inputVars, dev, d, heapVars, queueVars, queueMade, registered,
                   extiWired, semaVars, busLog, callerPc, initDone, initRet, setLast, testLast,
                   irqVars, halted, tasksMade, taskLocals, takes, xfers, fails, sends, drops>>

\* PIOS_Semaphore_Take(...) != true: the wait expired with the semaphore empty;
\* PIOS_Thread_Sleep(100); continue;
Task_take_failed ==
    /\ ~halted
    /\ taskPc = "loop"
    /\ WaitsOnSemaphore
    /\ semaCount = 0
    /\ taskPc' = "retry"
    /\ UNCHANGED <<inputVars, dev, d, heapVars, queueVars, queueMade, registered,
                   extiWired, semaVars, busLog, callerPc, initDone, initRet, setLast, testLast,
                   irqVars, halted, tasksMade, taskLocals, takes, xfers, fails, sends, drops>>

\* the 100 ms sleep ends and the loop starts over
Task_retry ==
    /\ ~halted
    /\ taskPc = "retry"
    /\ taskPc' = "loop"
    /\ UNCHANGED <<inputVars, dev, d, heapVars, queueVars, queueMade, registered,
                   extiWired, semaVars, busLog, callerPc, initDone, initRet, setLast, testLast,
                   irqVars, halted, tasksMade, taskLocals, takes, xfers, fails, sends, drops>>

\* Milliseconds from the system time the task started with to its base
\* timestamp, in 32-bit arithmetic.
Elapsed ==
    ((now.hi - systime.hi) % Half) * Half + (now.lo - systime.lo)

\* else PIOS_Thread_Sleep_Until(&now, sample_delay);
\* The model follows the task for MaxCycles periods and transactions.
Task_sleep_until ==
    /\ ~halted
    /\ taskPc = "loop"
    /\ ~WaitsOnSemaphore
    /\ xfers < MaxCycles
    /\ Elapsed < MaxCycles * sample_delay
    /\ now' = PIOS_Thread_Sleep_Until(now, sample_delay)
    /\ taskPc' = "read"
    /\ UNCHANGED <<inputVars, dev, d, heapVars, queueVars, queueMade, registered,
                   extiWired, semaVars, busLog, callerPc, initDone, initRet, setLast, testLast,
                   irqVars, halted, tasksMade, sample_delay, buffer_read, txn_list, takes, xfers,
                   fails, sends, drops>>

sizeof_buffer_read == 8

\* Variant of ReadMag_txn_list: the data is read after the mode register has
\* been written.
ReadMag_txn_list_rearm_first(temperature) ==
    <<[rw |-> "WRITE", len |-> 2, buf |-> <<PIOS_HMC5983_MODE_REG, cfg.Mode>>],
      [rw |-> "WRITE", len |-> 1, buf |-> <<PIOS_HMC5983_DATAOUT_XMSB_REG>>],
      [rw |-> "READ",
       len |-> IF temperature = NULL THEN sizeof_buffer_read - 2
               ELSE sizeof_buffer_read,
       buf |-> <<>>]>>

\* txn_list of PIOS_HMC5983_ReadMag(mag_data, temperature): the write of
\* addr_read, the read of n_read bytes into buffer_read (sizeof(buffer_read)
\* - 2 when temperature is NULL, else sizeof(buffer_read)), and the write of
\* buffer_write = {PIOS_HMC5983_MODE_REG, dev->cfg->Mode}.
ReadMag_txn_list(temperature) ==
    <<[rw |-> "WRITE", len |-> 1, buf |-> <<PIOS_HMC5983_DATAOUT_XMSB_REG>>],
      [rw |-> "READ",
       len |-> IF temperature = NULL THEN sizeof_buffer_read - 2
               ELSE sizeof_buffer_read,
       buf |-> <<>>],
      [rw |-> "WRITE", len |-> 2, buf |-> <<PIOS_HMC5983_MODE_REG, cfg.Mode>>]>>

\* Variant of Task_ReadMag: a failed transfer ends the task.
Task_ReadMag_exit_on_error ==
    /\ ~halted
    /\ taskPc = "read"
    /\ \E v \in PIOS_HMC5983_Validate(dev, d), transferOk \in BOOLEAN :
        IF v # 0 THEN
            /\ taskPc' = "exited"
            /\ UNCHANGED <<xfers, fails, buffer_read, txn_list>>
        ELSE
            /\ xfers' = xfers + 1
            /\ fails' = IF transferOk THEN fails ELSE fails + 1
            /\ txn_list' = ReadMag_txn_list(NULL)
            /\ buffer_read' = IF transferOk THEN wire ELSE NoReading
            /\ taskPc' = IF transferOk THEN "publish" ELSE "exited"
    /\ UNCHANGED <<inputVars, dev, d, heapVars, queueVars, queueMade, registered,
                   extiWired, semaVars, busLog, callerPc, initDone, initRet, setLast, testLast,
                   irqVars, halted, tasksMade, sample_delay, now, takes, sends, drops>>

\* Variant of Task_ReadMag: the result of ReadMag is not looked at, the
\* sample is sent whatever it returned.
Task_ReadMag_unchecked ==
    /\ ~halted
    /\ taskPc = "read"
    /\ \E v \in PIOS_HMC5983_Validate(dev, d), transferOk \in BOOLEAN :
        IF v # 0 THEN
            /\ taskPc' = "publish"
            /\ UNCHANGED <<xfers, fails, buffer_read, txn_list>>
        ELSE
            /\ xfers' = xfers + 1
            /\ fails' = IF transferOk THEN fails ELSE fails + 1
            /\ txn_list' = ReadMag_txn_list(NULL)
            /\ buffer_read' = IF transferOk THEN wire ELSE NoReading
            /\ taskPc' = "publish"
    /\ UNCHANGED <<inputVars, dev, d, heapVars, queueVars, queueMade, registered,
                   extiWired, semaVars, busLog, callerPc, initDone, initRet, setLast, testLast,
                   irqVars, halted, tasksMade, sample_delay, now, takes, sends, drops>>

\* PIOS_HMC5983_ReadMag up to the transfer: an invalid device returns -1 with
\* no transaction; else the three-segment transaction is issued and either
\* fails (return -1, nothing is sent) or fills buffer_read.
Task_ReadMag ==
    /\ ~halted
    /\ taskPc = "read"
    /\ \E v \in PIOS_HMC5983_Validate(dev, d), transferOk \in BOOLEAN :
        IF v # 0 THEN
            /\ taskPc' = "loop"
            /\ UNCHANGED <<xfers, fails, buffer_read, txn_list>>
        ELSE
            /\ xfers' = xfers + 1
            /\ fails' = IF transferOk THEN fails ELSE fails + 1
            /\ txn_list' = ReadMag_txn_list(NULL)
            /\ buffer_read' = IF transferOk THEN wire ELSE NoReading
            /\ taskPc' = IF transferOk THEN "publish" ELSE "loop"
    /\ UNCHANGED <<inputVars, dev, d, heapVars, queueVars, queueMade, registered,
                   extiWired, semaVars, busLog, callerPc, initDone, initRet, setLast, testLast,
                   irqVars, halted, tasksMade, sample_delay, now, takes, sends, drops>>

\* Conversion of a C int to int16_t: the low 16 bits, read as two's complement.
Int16(v) ==
    LET m == v % Half IN IF m >= Half \div 2 THEN m - Half ELSE m

\* C's integer division: the quotient is truncated toward zero.
CDiv(a, b) ==
    IF a >= 0 THEN a \div b ELSE -((-a) \div b)

\* PIOS_HMC5983_Config_GetSensitivity: switch (dev->cfg->Gain), 0 when no
\* case matches.
PIOS_HMC5983_Config_GetSensitivity(gain) ==
    CASE gain = PIOS_HMC5983_GAIN_0_88 -> PIOS_HMC5983_Sensitivity_0_88Ga
      [] gain = PIOS_HMC5983_GAIN_1_3 -> PIOS_HMC5983_Sensitivity_1_3Ga
      [] gain = PIOS_HMC5983_GAIN_1_9 -> PIOS_HMC5983_Sensitivity_1_9Ga
      [] gain = PIOS_HMC5983_GAIN_2_5 -> PIOS_HMC5983_Sensitivity_2_5Ga
      [] gain = PIOS_HMC5983_GAIN_4_0 -> PIOS_HMC5983_Sensitivity_4_0Ga
      [] gain = PIOS_HMC5983_GAIN_4_7 -> PIOS_HMC5983_Sensitivity_4_7Ga
      [] gain = PIOS_HMC5983_GAIN_5_6 -> PIOS_HMC5983_Sensitivity_5_6Ga
      [] gain = PIOS_HMC5983_GAIN_8_1 -> PIOS_HMC5983_Sensitivity_8_1Ga
      [] OTHER -> 0

\* Variant of MagAxis: the quotient is rounded down instead of toward zero.
MagAxis_floor(msb, lsb, sensitivity) ==
    Int16(((Int16(msb * 256) + lsb) * 1000) \div sensitivity)

\* int16_t mag = ((int16_t)((uint16_t)msb << 8) + lsb) * 1000 / sensitivity:
\* the high byte is shifted and narrowed to int16_t, the low byte added and
\* the product divided in int; the assignment narrows the quotient.
MagAxis(msb, lsb, sensitivity) ==
    Int16(CDiv((Int16(msb * 256) + lsb) * 1000, sensitivity))

\* Variant of OrientationSwitch: BOTTOM_270 keeps the sign of mag_x.
OrientationSwitch_no_sign(orientation, mag_x, mag_y, mag_z) ==
    CASE orientation = PIOS_HMC5983_TOP_0DEG -> <<-mag_x, mag_y, -mag_z>>
      [] orientation = PIOS_HMC5983_TOP_90DEG -> <<-mag_y, -mag_x, -mag_z>>
      [] orientation = PIOS_HMC5983_TOP_180DEG -> <<mag_x, -mag_y, -mag_z>>
      [] orientation = PIOS_HMC5983_TOP_270DEG -> <<mag_y, mag_x, -mag_z>>
      [] orientation = PIOS_HMC5983_BOTTOM_0DEG -> <<-mag_x, -mag_y, mag_z>>
      [] orientation = PIOS_HMC5983_BOTTOM_90DEG -> <<-mag_y, mag_x, mag_z>>
      [] orientation = PIOS_HMC5983_BOTTOM_180DEG -> <<mag_x, mag_y, mag_z>>
      [] orientation = PIOS_HMC5983_BOTTOM_270DEG -> <<mag_y, mag_x, mag_z>>
      [] OTHER -> <<Uninit, Uninit, Uninit>>

\* switch (dev->orientation): the values assigned to mag_data->x, ->y, ->z.
\* There is no default label: an orientation outside the eight leaves
\* mag_data as it was.
OrientationSwitch(orientation, mag_x, mag_y, mag_z) ==
    CASE orientation = PIOS_HMC5983_TOP_0DEG -> <<-mag_x, mag_y, -mag_z>>
      [] orientation = PIOS_HMC5983_TOP_90DEG -> <<-mag_y, -mag_x, -mag_z>>
      [] orientation = PIOS_HMC5983_TOP_180DEG -> <<mag_x, -mag_y, -mag_z>>
      [] orientation = PIOS_HMC5983_TOP_270DEG -> <<mag_y, mag_x, -mag_z>>
      [] orientation = PIOS_HMC5983_BOTTOM_0DEG -> <<-mag_x, -mag_y, mag_z>>
      [] orientation = PIOS_HMC5983_BOTTOM_90DEG -> <<-mag_y, mag_x, mag_z>>
      [] orientation = PIOS_HMC5983_BOTTOM_180DEG -> <<mag_x, mag_y, mag_z>>
      [] orientation = PIOS_HMC5983_BOTTOM_270DEG -> <<mag_y, -mag_x, mag_z>>
      [] OTHER -> <<Uninit, Uninit, Uninit>>

\* The scaled device axes of the reading in buffer_read: mag_x from bytes 0
\* and 1, mag_z from bytes 2 and 3, mag_y from bytes 4 and 5.
ScaledAxes ==
    LET sensitivity == PIOS_HMC5983_Config_GetSensitivity(cfg.Gain) IN
    [mag_x |-> MagAxis(buffer_read[1], buffer_read[2], sensitivity),
     mag_z |-> MagAxis(buffer_read[3], buffer_read[4], sensitivity),
     mag_y |-> MagAxis(buffer_read[5], buffer_read[6], sensitivity)]

\* Variant of Sample: the orientation is read again for each axis, and the
\* reads for y and z see the orientation Init stored.
Sample_read_per_axis(cycle, orientation) ==
    LET m == ScaledAxes
        b == OrientationSwitch(orientation, m.mag_x, m.mag_y, m.mag_z)
        c == OrientationSwitch(cfg.Orientation, m.mag_x, m.mag_y, m.mag_z)
    IN  [cycle |-> cycle, orientation |-> orientation,
         x |-> Int16(b[1]), y |-> Int16(c[2]), z |-> Int16(c[3])]

\* The sample of the cycle: the reading of transaction number cycle, scaled
\* and mapped to the board frame under the orientation the record holds at the
\* switch; x, y and z are 16-bit fields.
Sample(cycle, orientation) ==
    LET m == ScaledAxes
        b == OrientationSwitch(orientation, m.mag_x, m.mag_y, m.mag_z)
    IN  [cycle |-> cycle, orientation |-> orientation,
         x |-> Int16(b[1]), y |-> Int16(b[2]), z |-> Int16(b[3])]

\* PIOS_Queue_Send(queue, item, 0) on the queue of PIOS_HMC5983_MAX_DOWNSAMPLE
\* slots: the item is appended if a slot is free; with a zero timeout a full
\* queue refuses it at once and keeps its contents.
PIOS_Queue_Send(q, item) ==
    IF Len(q) < PIOS_HMC5983_MAX_DOWNSAMPLE THEN Append(q, item) ELSE q

\* Variant of Task_publish: the send waits for a free slot instead of giving
\* up at once.
Task_publish_blocking ==
    /\ ~halted
    /\ taskPc = "publish"
    /\ Len(queue) < PIOS_HMC5983_MAX_DOWNSAMPLE
    /\ queue' = Append(queue, Sample(xfers, d.orientation))
    /\ sends' = sends + 1
    /\ taskPc' = "loop"
    /\ buffer_read' = NoReading
    /\ UNCHANGED <<inputVars, dev, d, heapVars, consumed, queueMade, registered,
                   extiWired, semaVars, busLog, callerPc, initDone, initRet, setLast, testLast,
                   irqVars, halted, tasksMade, sample_delay, now, txn_list, takes, xfers, fails, drops>>

\* Variant of Task_publish: a full queue is emptied to make room for the new
\* sample.
Task_publish_overwrite ==
    /\ ~halted
    /\ taskPc = "publish"
    /\ queue' = IF Len(queue) < PIOS_HMC5983_MAX_DOWNSAMPLE
                THEN Append(queue, Sample(xfers, d.orientation))
                ELSE Append(Tail(queue), Sample(xfers, d.orientation))
    /\ sends' = sends + 1
    /\ drops' = IF Len(queue) < PIOS_HMC5983_MAX_DOWNSAMPLE THEN drops ELSE drops + 1
    /\ taskPc' = "loop"
    /\ buffer_read' = NoReading
    /\ UNCHANGED <<inputVars, dev, d, heapVars, consumed, queueMade, registered,
                   extiWired, semaVars, busLog, callerPc, initDone, initRet, setLast, testLast,
                   irqVars, halted, tasksMade, sample_delay, now, txn_list, takes, xfers, fails>>

\* ReadMag's conversion and orientation switch, return 0, then
\* PIOS_Queue_Send(dev->queue, &mag_data, 0); back to the head of the loop.
Task_publish ==
    /\ ~halted
    /\ taskPc = "publish"
    /\ queue' = PIOS_Queue_Send(queue, Sample(xfers, d.orientation))
    /\ sends' = sends + 1
    /\ drops' = IF Len(queue) < PIOS_HMC5983_MAX_DOWNSAMPLE THEN drops ELSE drops + 1
    /\ taskPc' = "loop"
    /\ buffer_read' = NoReading
    /\ UNCHANGED <<inputVars, dev, d, heapVars, consumed, queueMade, registered,
                   extiWired, semaVars, busLog, callerPc, initDone, initRet, setLast, testLast,
                   irqVars, halted, tasksMade, sample_delay, now, txn_list, takes, xfers, fails>>

(***************************************************************************)
(* The downstream consumer of the registered queue.                        *)
(***************************************************************************)
Consume ==
    /\ ~halted
    /\ registered > 0
    /\ queue # <<>>
    /\ queue' = Tail(queue)
    /\ consumed' = consumed + 1
    /\ UNCHANGED <<inputVars, dev, d, heapVars, queueMade, registered, extiWired,
                   semaVars, busLog, callerPc, initDone, initRet, setLast, testLast, irqVars,
                   halted, taskVars, tasksMade>>

Next ==
    \/ Init_alloc
    \/ Init_fields
    \/ Init_exti
    \/ Init_sema
    \/ Config_A
    \/ Config_B
    \/ Config_Mode
    \/ Init_register
    \/ Init_task
    \/ \E o \in Orientations : PIOS_HMC5983_SetOrientation(o)
    \/ PIOS_HMC5983_IRQHandler
    \/ Task_waitinit
    \/ Task_take
    \/ Task_take_failed
    \/ Task_retry
    \/ Task_sleep_until
    \/ Task_ReadMag
    \/ Task_publish
    \/ Consume

Spec == Init /\ [][Next]_vars

\* The same program started with any of the eight output data rates and with
\* the system time at the start or 20 ms before the wrap of its 32-bit counter.
SystimeSet == {Time32(0, 0), Time32(Half - 1, Half - 20)}

InitAllRates ==
    /\ i2c_id = 1
    /\ cfg \in [M_ODR : AllOdrCodes, Meas_Conf : {0}, Gain : {32}, Mode : ModeCodes,
                Orientation : {PIOS_HMC5983_TOP_0DEG}, exti_cfg : {NULL, 1}]
    /\ systime \in SystimeSet
    /\ wire = S2Bytes
    /\ InitState

SpecAllRates == InitAllRates /\ [][Next]_vars

\* A further call of PIOS_HMC5983_Init by the bring-up thread, with the same
\* arguments, after an earlier call has returned.  Nothing in Init looks at
\* what an earlier call left behind.  The task the model follows from then on
\* is the one the latest call creates.
PIOS_HMC5983_Init_again ==
    /\ ~halted
    /\ callerPc = "idle"
    /\ mallocs < MaxInits
    /\ callerPc' = "start"
    /\ initDone' = FALSE
    /\ UNCHANGED <<inputVars, dev, d, heapVars, queueVars, queueMade, registered,
                   extiWired, semaVars, busLog, initRet, setLast, testLast, irqVars,
                   halted, taskVars, tasksMade>>

\* The driver with the self test among the operations its callers may use,
\* before Init as well as after it.
InitCalls ==
    /\ i2c_id \in {0, 1}
    /\ cfg \in [M_ODR : {PIOS_HMC5983_ODR_75}, Meas_Conf : {0},
                Gain : {PIOS_HMC5983_GAIN_1_3}, Mode : ModeCodes,
                Orientation : {PIOS_HMC5983_TOP_0DEG}, exti_cfg : {NULL, 1}]
    /\ systime = Time32(0, 0)
    /\ wire = S2Bytes
    /\ InitState

NextCalls ==
    \/ Next
    \/ PIOS_HMC5983_Test

SpecCalls == InitCalls /\ [][NextCalls]_vars

\* The polled single-shot driver started with any of the eight gains and the
\* eight orientations, on a device whose burst read returns one of a set of
\* readings: X counts at the ends and the middle of the device's range
\* (-2048, -1, 0, 1, 2047), at its overflow mark (-4096) and at the ends of
\* the 16-bit range, with Z and Y counts of 0, -1 and 2047; and two readings
\* of counts (256, -256, 128) and (109, 218, 327).
S4Bytes == <<0, 109, 0, 218, 1, 71>>
PairsX == {<<248, 0>>, <<255, 255>>, <<0, 0>>, <<0, 1>>, <<7, 255>>, <<240, 0>>,
           <<127, 255>>, <<128, 0>>}
PairsZY == {<<0, 0>>, <<255, 255>>, <<7, 255>>}
ReadingSet ==
    {<<p[1], p[2], q[1], q[2], r[1], r[2]>> : p \in PairsX, q \in PairsZY, r \in PairsZY}
        \cup {S2Bytes, S4Bytes}

InitConv ==
    /\ i2c_id = 1
    /\ cfg \in [M_ODR : {PIOS_HMC5983_ODR_75}, Meas_Conf : {0}, Gain : AllGainCodes,
                Mode : {PIOS_HMC5983_MODE_SINGLE}, Orientation : AllOrientations,
                exti_cfg : {NULL}]
    /\ systime = Time32(0, 0)
    /\ wire \in ReadingSet
    /\ InitState

NextConv ==
    \/ Init_alloc
    \/ Init_fields
    \/ Init_exti
    \/ Config_A
    \/ Config_B
    \/ Config_Mode
    \/ Init_register
    \/ Init_task
    \/ Task_waitinit
    \/ Task_sleep_until
    \/ Task_ReadMag
    \/ Task_publish
    \/ Consume

SpecConv == InitConv /\ [][NextConv]_vars

\* The polled driver whose bring-up thread may call Init again.
InitAgain ==
    /\ i2c_id \in {0, 1}
    /\ cfg \in [M_ODR : {PIOS_HMC5983_ODR_75}, Meas_Conf : {0},
                Gain : {PIOS_HMC5983_GAIN_1_3}, Mode : ModeCodes,
                Orientation : {PIOS_HMC5983_TOP_0DEG}, exti_cfg : {NULL}]
    /\ systime = Time32(0, 0)
    /\ wire = S2Bytes
    /\ InitState

NextAgain ==
    \/ NextConv
    \/ PIOS_HMC5983_Init_again

SpecAgain == InitAgain /\ [][NextAgain]_vars

(***************************************************************************)
(* Properties of initialisation.                                           *)
(***************************************************************************)
\* The three writes of Config have been issued in the order A, B, Mode and
\* each has succeeded.
AllThreeWritten ==
    /\ Len(busLog) = 3
    /\ busLog[1].reg = PIOS_HMC5983_CONFIG_REG_A
    /\ busLog[2].reg = PIOS_HMC5983_CONFIG_REG_B
    /\ busLog[3].reg = PIOS_HMC5983_MODE_REG
    /\ \A k \in 1..3 : busLog[k].ok

\* PIOS_HMC5983_Config has returned 0 to Init.
ConfigSucceeded ==
    \/ callerPc \in {"register", "task"}
    \/ initDone /\ initRet = 0

\* C1: after every Init that returned 0 the register writes issued during
\* init are exactly three, in the order register A, register B, mode
\* register, with the values 0x80 + ODR bits + measurement bits, the gain
\* field and the mode field of the configuration record; the mode write is
\* the last.
C1_ConfigureOrdering ==
    (initDone /\ initRet = 0) =>
        busLog = << [reg |-> 0, val |-> 128 + cfg.M_ODR + cfg.Meas_Conf, ok |-> TRUE],
                    [reg |-> 1, val |-> cfg.Gain, ok |-> TRUE],
                    [reg |-> 2, val |-> cfg.Mode, ok |-> TRUE] >>

C1_Witness ==
    /\ initDone /\ initRet = 0
    /\ cfg.M_ODR = 24 /\ cfg.Meas_Conf = 1 /\ cfg.Gain = 224
    /\ cfg.Mode = PIOS_HMC5983_MODE_SINGLE
    /\ Len(busLog) = 3 /\ busLog[1].val = 153

\* C2: the worker task exists only after Config returned success, and no
\* read_mag_and_rearm transaction is issued before the three configure writes
\* A, B, Mode have all completed successfully.
C2_ConfigureBeforeSampling ==
    (tasksMade > 0 \/ taskPc # "none" \/ xfers > 0) =>
        (AllThreeWritten /\ ConfigSucceeded)

C2_Witness ==
    /\ xfers > 0
    /\ busLog[3].reg = PIOS_HMC5983_MODE_REG

\* C3: Config returns success exactly when all three register writes
\* succeeded; when the k-th write fails it is the last write issued, Init
\* returns failure, the queue is not registered and no worker task is created.
C3_ConfigureAllOrNothing ==
    /\ ConfigSucceeded <=> AllThreeWritten
    /\ \A k \in 1..Len(busLog) :
        ~busLog[k].ok =>
            /\ k = Len(busLog)
            /\ initDone /\ initRet = -2
            /\ registered = 0 /\ tasksMade = 0 /\ taskPc = "none"
    /\ (initDone /\ initRet = -2) =>
            /\ ~AllThreeWritten
            /\ registered = 0 /\ tasksMade = 0 /\ taskPc = "none"

C3_Witness ==
    /\ initDone /\ initRet = -2
    /\ Len(busLog) = 2
    /\ busLog[1].ok /\ ~busLog[2].ok

\* PIOS_HMC5983_Config failed and Init returned -2.
ConfigFailed == initDone /\ initRet = -2

\* C4: after an Init whose configure step failed the device is treated as
\* not initialised: in every later state the handle fails validation, a
\* SetOrientation call is rejected and leaves the orientation alone, and the
\* interrupt handler neither signals nor touches the semaphore.
C4_NotInitializedAfterConfigFailure ==
    /\ [](ConfigFailed => 0 \notin PIOS_HMC5983_Validate(dev, d))
    /\ [][ConfigFailed =>
            /\ d'.orientation = d.orientation
            /\ (setLast' # setLast => setLast'.ret = -1)
            /\ gives' = gives
            /\ semaCount' = semaCount
            /\ badGive' = badGive]_vars

\* C5: when PIOS_malloc or PIOS_Queue_Create fails, Init returns failure and
\* nothing of it is left: the device pointer is NULL, no record is held, no
\* queue, interrupt wiring or semaphore exists, no bus write was issued,
\* nothing is registered and no worker task exists.
C5_AllocFailureLeavesNothing ==
    (initDone /\ initRet = -1) =>
        /\ dev = NULL
        /\ mallocs - frees = 0
        /\ queueMade = 0
        /\ ~extiWired
        /\ semaMade = 0
        /\ busLog = <<>>
        /\ registered = 0
        /\ tasksMade = 0 /\ taskPc = "none"
        /\ xfers = 0 /\ gives = 0

\* Init failed because the queue could not be created: the record had been
\* obtained and was given back.
C5_Witness ==
    /\ initDone /\ initRet = -1
    /\ mallocs = 1 /\ frees = 1
    /\ irqLast = "rejected"
    /\ setLast.called /\ setLast.ret = -1

(***************************************************************************)
(* Properties of the acquisition loop and the output queue.                *)
(***************************************************************************)
InRead == IF taskPc = "read" THEN 1 ELSE 0
InPublish == IF taskPc = "publish" THEN 1 ELSE 0

\* The task completes its PIOS_Queue_Send call in this step.
SendStep == taskPc = "publish" /\ taskPc' = "loop"

\* C6: the output queue never holds more than one sample and publishing never
\* blocks: a task that has a sample to publish can always take its step, and
\* while the consumer has taken nothing, after one or more completed sends
\* the queue holds exactly one sample.
C6_QueueHoldsAtMostOne ==
    /\ Len(queue) <= 1
    /\ (consumed = 0 /\ sends >= 1) => Len(queue) = 1
    /\ (taskPc = "publish" /\ ~halted) => ENABLED Task_publish

C6_Witness ==
    /\ consumed = 0
    /\ sends = 3
    /\ Len(queue) = 1
    /\ taskPc = "loop"

\* C7: a send made while the queue is full drops the new sample silently: the
\* queue keeps its contents, the send returns at once and the loop goes on.
C7_DropNewWhenFull ==
    [][(SendStep /\ Len(queue) >= 1) =>
            /\ queue' = queue
            /\ sends' = sends + 1
            /\ drops' = drops + 1]_vars

C7_Witness ==
    /\ drops >= 1
    /\ taskPc = "loop"
    /\ Len(queue) = 1
    /\ Head(queue).cycle < xfers

\* C8 as stated: a send made while the queue holds a sample evicts it, and
\* the queue then holds the newly produced sample.
C8_DropOldestWhenFull ==
    [][(SendStep /\ Len(queue) = 1) =>
            queue' = <<Sample(xfers, d.orientation)>>]_vars

\* C8 amended: a send made while the queue holds a sample leaves that sample
\* at the head of the queue and drops the new one; a queued sample leaves the
\* queue only when the consumer takes it.
C8_OverflowKeepsQueuedSample ==
    /\ [][(SendStep /\ Len(queue) = 1) =>
            (Len(queue') = 1 /\ Head(queue') = Head(queue))]_vars
    /\ [][(queue # <<>> /\ queue' # queue) =>
            (consumed' = consumed + 1 /\ queue' = Tail(queue))]_vars

C8_Witness ==
    /\ drops = 2
    /\ consumed = 0
    /\ Len(queue) = 1
    /\ Head(queue).cycle = 1
    /\ xfers = 3

\* C9 as stated: in continuous mode with a data-ready semaphore (created
\* empty), once the task is back waiting on the empty semaphore it has made
\* exactly one read_mag_and_rearm transaction per signalled edge.
C9_OneCyclePerEdge ==
    (semaInit = 0 /\ TaskBlockedInTake /\ ~halted) => xfers = gives

\* C9 amended: the semaphore is binary, so an edge signalled while it is
\* still signalled is absorbed; every other signal (and the state the
\* semaphore was created in) is taken exactly once, and in continuous mode
\* with a semaphore every take is followed by exactly one read_mag_and_rearm
\* transaction.
C9_OneCyclePerTakenSignal ==
    /\ takes + semaCount + coalesced = gives + semaInit
    /\ (d.data_ready_sema = 1 /\ cfg.Mode = PIOS_HMC5983_MODE_CONTINUOUS) =>
            xfers + InRead = takes
    /\ sends + InPublish + fails = xfers

C9_Witness ==
    /\ semaInit = 0
    /\ gives = 2
    /\ coalesced = 1
    /\ TaskBlockedInTake
    /\ xfers = 1
    /\ sends = 1

\* C10: the task never leaves its loop and has no error state: a failed
\* transaction returns it to the wait step with nothing enqueued, and every
\* transaction that succeeds is followed by a send that enqueues the sample
\* of that cycle when the queue has room, whatever the number of failures
\* before it.
C10_FailuresAreAbsorbed ==
    /\ [](/\ taskPc \in {"none", "start", "loop", "retry", "read", "publish"}
          /\ xfers = fails + sends + InPublish)
    /\ [][fails' # fails =>
            (fails' = fails + 1 /\ taskPc' = "loop" /\ queue' = queue /\ sends' = sends)]_vars
    /\ [][(taskPc = "publish" /\ taskPc' # "publish") =>
            /\ taskPc' = "loop"
            /\ sends' = sends + 1
            /\ (queue = <<>> => queue' = <<Sample(xfers, d.orientation)>>)]_vars

C10_Witness ==
    /\ fails = 2
    /\ sends = 1
    /\ taskPc = "loop"
    /\ Len(queue) = 1
    /\ Head(queue).cycle = 3

(***************************************************************************)
(* The sample period of the polled loop.                                   *)
(***************************************************************************)
\* The output data rate each code selects, in quarters of a hertz.
OdrQuarterHz(odr) ==
    CASE odr = PIOS_HMC5983_ODR_0_75 -> 3
      [] odr = PIOS_HMC5983_ODR_1_5 -> 6
      [] odr = PIOS_HMC5983_ODR_3 -> 12
      [] odr = PIOS_HMC5983_ODR_7_5 -> 30
      [] odr = PIOS_HMC5983_ODR_15 -> 60
      [] odr = PIOS_HMC5983_ODR_30 -> 120
      [] odr = PIOS_HMC5983_ODR_75 -> 300
      [] odr = PIOS_HMC5983_ODR_220 -> 880

\* ceil(1000 / rate) milliseconds for a rate in quarters of a hertz.
CeilPeriod(quarterHz) == (4000 + quarterHz - 1) \div quarterHz

\* The task has computed its sample period and runs the polled branch.
InPolledLoop == taskPc \in {"loop", "retry", "read", "publish"} /\ ~WaitsOnSemaphore

\* C11: in polled mode the loop's period is ceil(1000 / odr_hz) milliseconds
\* for each of the eight output data rates (0.75, 1.5, 3, 7.5, 15, 30, 75 and
\* 220 Hz), and this increment is added to the base timestamp on every
\* iteration: after k sleeps the base is the start time plus k periods.
C11_SampleDelayIsCeilOfPeriod ==
    InPolledLoop =>
        /\ sample_delay = CeilPeriod(OdrQuarterHz(cfg.M_ODR))
        /\ now = AddU32(systime, (xfers + InRead) * CeilPeriod(OdrQuarterHz(cfg.M_ODR)))

(***************************************************************************)
(* Orientation mapping and count conversion.                               *)
(***************************************************************************)
\* The orientation table: for each orientation the sign and the device axis
\* of the board-frame x, y and z.
OrientationTable(orientation) ==
    CASE orientation = PIOS_HMC5983_TOP_0DEG -> <<<<-1, "rx">>, <<1, "ry">>, <<-1, "rz">>>>
      [] orientation = PIOS_HMC5983_TOP_90DEG -> <<<<-1, "ry">>, <<-1, "rx">>, <<-1, "rz">>>>
      [] orientation = PIOS_HMC5983_TOP_180DEG -> <<<<1, "rx">>, <<-1, "ry">>, <<-1, "rz">>>>
      [] orientation = PIOS_HMC5983_TOP_270DEG -> <<<<1, "ry">>, <<1, "rx">>, <<-1, "rz">>>>
      [] orientation = PIOS_HMC5983_BOTTOM_0DEG -> <<<<-1, "rx">>, <<-1, "ry">>, <<1, "rz">>>>
      [] orientation = PIOS_HMC5983_BOTTOM_90DEG -> <<<<-1, "ry">>, <<1, "rx">>, <<1, "rz">>>>
      [] orientation = PIOS_HMC5983_BOTTOM_180DEG -> <<<<1, "rx">>, <<1, "ry">>, <<1, "rz">>>>
      [] orientation = PIOS_HMC5983_BOTTOM_270DEG -> <<<<1, "ry">>, <<-1, "rx">>, <<1, "rz">>>>

\* The scaled device triple of the reading on the wire, X first, then Z, Y.
WireTriple ==
    LET sensitivity == PIOS_HMC5983_Config_GetSensitivity(cfg.Gain) IN
    [rx |-> MagAxis(wire[1], wire[2], sensitivity),
     rz |-> MagAxis(wire[3], wire[4], sensitivity),
     ry |-> MagAxis(wire[5], wire[6], sensitivity)]

\* The board-frame value of a table entry: the signed device axis as a
\* 16-bit field.
TableValue(entry, r) ==
    LET v == entry[1] * r[entry[2]] IN
    IF v = Half \div 2 THEN -v ELSE v

\* The sample agrees with the table row of the orientation it was mapped under.
MatchesTable(sample) ==
    LET row == OrientationTable(sample.orientation) IN
    /\ sample.x = TableValue(row[1], WireTriple)
    /\ sample.y = TableValue(row[2], WireTriple)
    /\ sample.z = TableValue(row[3], WireTriple)

\* C12: for each of the eight orientations and every scaled device triple
\* (rx, rz, ry) read in wire order X, Z, Y, the published sample equals the
\* row of the orientation table: TOP_0 (-rx, ry, -rz), TOP_90 (-ry, -rx, -rz),
\* TOP_180 (rx, -ry, -rz), TOP_270 (ry, rx, -rz), BOTTOM_0 (-rx, -ry, rz),
\* BOTTOM_90 (-ry, rx, rz), BOTTOM_180 (rx, ry, rz), BOTTOM_270 (ry, -rx, rz);
\* the triple (100, 200, 300) under BOTTOM_270 gives (300, -100, 200).
C12_OrientationTable ==
    /\ \A i \in 1..Len(queue) : MatchesTable(queue[i])
    /\ \A i \in 1..Len(queue) :
        (WireTriple = [rx |-> 100, rz |-> 200, ry |-> 300]
            /\ queue[i].orientation = PIOS_HMC5983_BOTTOM_270DEG)
        => (queue[i].x = 300 /\ queue[i].y = -100 /\ queue[i].z = 200)

\* A sample of the triple (100, 200, 300) mapped under BOTTOM_270 is queued.
C12_Witness ==
    /\ Len(queue) = 1
    /\ WireTriple = [rx |-> 100, rz |-> 200, ry |-> 300]
    /\ Head(queue).orientation = PIOS_HMC5983_BOTTOM_270DEG
    /\ Head(queue).x = 300

\* The gain-to-sensitivity table (LSB per gauss), from 0.88 Ga to 8.1 Ga.
SensitivityTable == <<1370, 1090, 820, 660, 440, 390, 330, 230>>
TableSensitivity(gain) == SensitivityTable[gain \div 32 + 1]

\* The sign-extended 16-bit value (MSB << 8) | LSB.
SignExtended(msb, lsb) ==
    LET u == msb * 256 + lsb IN IF u >= 32768 THEN u - 65536 ELSE u

\* n / s rounded toward zero.
TruncTowardZero(n, s) ==
    LET q == (IF n < 0 THEN -n ELSE n) \div s IN IF n < 0 THEN -q ELSE q

\* raw * 1000 / table[gain] rounded toward zero, as an unbounded integer.
Milligauss(msb, lsb, gain) ==
    TruncTowardZero(SignExtended(msb, lsb) * 1000, TableSensitivity(gain))

\* The converted value is the 16-bit reduction of the exact value: it lies in
\* the 16-bit range, differs from the exact value by a multiple of 2^16, and
\* so equals it whenever the exact value fits.
Reduced16(converted, exact) ==
    /\ converted \in -32768..32767
    /\ (converted - exact) % 65536 = 0

\* The sample of counts (256, -256, 128) at sensitivity 1090 under TOP_0.
S2SampleIsRight ==
    \A i \in 1..Len(queue) :
        (wire = S2Bytes /\ cfg.Gain = PIOS_HMC5983_GAIN_1_3
            /\ queue[i].orientation = PIOS_HMC5983_TOP_0DEG)
        => (queue[i].x = -234 /\ queue[i].y = 117 /\ queue[i].z = 234)

\* C13 as stated: for every gain code of the table and every byte pair
\* [MSB, LSB] read from the device, the converted axis value equals
\* trunc_toward_zero(raw * 1000 / table[gain]) with raw the sign-extended
\* 16-bit value (MSB << 8) | LSB; the bytes 01 00 FF 00 00 80 at sensitivity
\* 1090 under TOP_0 give the sample (-234, 117, 234).
C13_ConversionForEveryBytePair ==
    /\ taskPc = "publish" =>
        /\ ScaledAxes.mag_x = Milligauss(buffer_read[1], buffer_read[2], cfg.Gain)
        /\ ScaledAxes.mag_z = Milligauss(buffer_read[3], buffer_read[4], cfg.Gain)
        /\ ScaledAxes.mag_y = Milligauss(buffer_read[5], buffer_read[6], cfg.Gain)
    /\ S2SampleIsRight

\* C13 (amended): for every gain code and every byte pair the converted axis
\* value is trunc_toward_zero(raw * 1000 / table[gain]) reduced to the 16-bit
\* signed range of the sample: equal to it whenever it lies in -32768..32767,
\* as it does for every raw count from -4096 to 2047, and else wrapped modulo
\* 2^16; the bytes 01 00 FF 00 00 80 at sensitivity 1090 under TOP_0 give the
\* sample (-234, 117, 234).
C13_ConversionReducedTo16Bits ==
    /\ taskPc = "publish" =>
        /\ Reduced16(ScaledAxes.mag_x, Milligauss(buffer_read[1], buffer_read[2], cfg.Gain))
        /\ Reduced16(ScaledAxes.mag_z, Milligauss(buffer_read[3], buffer_read[4], cfg.Gain))
        /\ Reduced16(ScaledAxes.mag_y, Milligauss(buffer_read[5], buffer_read[6], cfg.Gain))
        /\ SignExtended(buffer_read[1], buffer_read[2]) \in -4096..2047
            => ScaledAxes.mag_x = Milligauss(buffer_read[1], buffer_read[2], cfg.Gain)
    /\ S2SampleIsRight

\* The count -2048 has been read at the lowest sensitivity and converted to
\* -8904 (the exact quotient is -8904.3).
C13_Witness ==
    /\ taskPc = "publish"
    /\ cfg.Gain = PIOS_HMC5983_GAIN_8_1
    /\ buffer_read[1] = 248 /\ buffer_read[2] = 0
    /\ ScaledAxes.mag_x = -8904

(***************************************************************************)
(* The self test.                                                          *)
(***************************************************************************)
\* C14: the self test returns success if and only if the three ID bytes
\* actually read from the device equal 'H', '4', '3'; it returns failure
\* whenever the ID read did not complete (bus error or invalid device),
\* whatever the buffer held before.
C14_TestSucceedsIffIdRead ==
    testLast.called =>
        /\ (testLast.ret = 0) <=> (testLast.completed /\ testLast.id = IdH43)
        /\ ~testLast.completed => testLast.ret = -1

(***************************************************************************)
(* Validation on entry of the public operations.                           *)
(***************************************************************************)
\* The device pointer is null or the record's magic is wrong.
InvalidDevice == dev = NULL \/ d.magic # PIOS_HMC5983_DEV_MAGIC

\* C15: every public operation validates the device on entry: whenever the
\* device pointer is null or the magic is wrong, SetOrientation returns a
\* negative code and leaves the orientation alone, the self test returns
\* failure without a bus transaction, and the interrupt handler returns
\* "not woken" without signalling the semaphore.
C15_InvalidDeviceRejected ==
    [][InvalidDevice =>
        /\ setLast' # setLast =>
            (setLast'.ret < 0 /\ d'.orientation = d.orientation)
        /\ testLast' # testLast =>
            (testLast'.ret = -1 /\ testLast'.txns = 0)
        /\ irqLast' # irqLast => irqLast' = "rejected"
        /\ gives' = gives /\ semaCount' = semaCount /\ badGive' = badGive]_vars

(***************************************************************************)
(* One device instance.                                                    *)
(***************************************************************************)
\* C16: exactly one device instance exists per sensor: after any sequence of
\* Init calls, repeated ones included, there are at most one device record,
\* one output queue registered as the magnetometer channel and one worker
\* task.
C16_OneInstance ==
    /\ mallocs - frees <= 1
    /\ registered <= 1
    /\ tasksMade <= 1

(***************************************************************************)
(* Who signals and who takes the data-ready semaphore.                     *)
(***************************************************************************)
\* A give is made in this step (through the semaphore or a wild handle).
GiveStep == gives' # gives \/ badGive' # badGive

\* A take succeeds in this step.
TakeStep == takes' # takes

\* Neither the bring-up thread nor any of its calls moves in this step.
CallerStill ==
    /\ callerPc' = callerPc
    /\ setLast' = setLast
    /\ testLast' = testLast
    /\ busLog' = busLog
    /\ d' = d

\* C17: the data-ready semaphore is given only from the interrupt handler and
\* taken only by the acquisition loop: a step that gives it is a step of the
\* handler alone, a step that takes it is the loop's take, and every other
\* step (Init, SetOrientation, the self test, the configure writes, the
\* task's reads) leaves the semaphore's state alone unless it creates it.
C17_GivenByIsrTakenByLoop ==
    [][/\ GiveStep => (CallerStill /\ taskPc' = taskPc /\ irqLast' # "rejected")
       /\ TakeStep =>
            (CallerStill /\ taskPc = "loop" /\ taskPc' = "read" /\ WaitsOnSemaphore
                /\ ~GiveStep)
       /\ semaCount' # semaCount => (GiveStep \/ TakeStep \/ semaMade' # semaMade)]_vars

\* The handler has signalled twice and the loop has taken once, and the
\* bring-up thread has called SetOrientation and the self test.
C17_Witness ==
    /\ gives = 2
    /\ takes = 1
    /\ setLast.called
    /\ testLast.called

IsReadAndRearm(list, n) ==
    /\ Len(list) = 3
    /\ list[1].rw = "WRITE" /\ list[1].buf = <<3>>
    /\ list[2].rw = "READ" /\ list[2].len = n
    /\ list[3].rw = "WRITE" /\ list[3].buf = <<2, cfg.Mode>>

\* C19: every acquisition cycle issues one transaction list of exactly three
\* segments, [WRITE 0x03] [READ n bytes] [WRITE mode register, configured
\* mode], with n = 6 when no temperature is requested (as in every cycle of
\* the task) and n = 8 when it is; the mode write is part of the list that
\* holds the data read, so it is never issued without that read before it
\* and no other transaction of the driver comes between them.
C19_ReadAndRearmTransaction ==
    /\ [](/\ xfers > 0 => IsReadAndRearm(txn_list, 6)
          /\ xfers = 0 => txn_list = <<>>
          /\ IsReadAndRearm(ReadMag_txn_list(NULL), 6)
          /\ IsReadAndRearm(ReadMag_txn_list(1), 8))
    /\ [][xfers' # xfers =>
            /\ xfers' = xfers + 1
            /\ taskPc = "read"
            /\ IsReadAndRearm(txn_list', 6)
            /\ busLog' = busLog /\ testLast' = testLast]_vars
    /\ [][txn_list' # txn_list => xfers' = xfers + 1]_vars

\* Two cycles have run in single-measurement mode: the last list read six
\* bytes and wrote the mode register with the single-measurement mode.
C19_Witness ==
    /\ xfers = 2
    /\ cfg.Mode = PIOS_HMC5983_MODE_SINGLE
    /\ Len(txn_list) = 3
    /\ txn_list[2].len = 6
    /\ txn_list[3].buf = <<PIOS_HMC5983_MODE_REG, PIOS_HMC5983_MODE_SINGLE>>

(***************************************************************************)
(* How the loop waits.                                                     *)
(***************************************************************************)
\* A data-ready semaphore exists and the configured mode is continuous.
InterruptDriven ==
    d.data_ready_sema # NULL /\ cfg.Mode = PIOS_HMC5983_MODE_CONTINUOUS

\* C20: the loop waits on the data-ready semaphore exactly when a semaphore
\* exists and the configured mode is continuous, and else sleeps to the
\* absolute deadline base + period; so in interrupt-driven operation the
\* transactions made never outnumber the signals made available to the task
\* (the handler's gives plus the state the semaphore was created in), and a
\* failed take leads to the 100 ms sleep and back to the wait with no bus
\* transaction.
C20_WaitDiscipline ==
    /\ []((InterruptDriven /\ taskPc \in {"loop", "retry", "read", "publish"}) =>
            /\ xfers + InRead = takes
            /\ takes <= gives + semaInit)
    /\ []((~InterruptDriven) => takes = 0)
    /\ [][(taskPc = "loop" /\ taskPc' # "loop") =>
            IF InterruptDriven
            THEN \/ /\ taskPc' = "read"
                    /\ semaCount = 1 /\ semaCount' = 0
                    /\ takes' = takes + 1
                    /\ now' = now
                 \/ /\ taskPc' = "retry"
                    /\ semaCount = 0 /\ semaCount' = 0
                    /\ takes' = takes
                    /\ xfers' = xfers /\ txn_list' = txn_list
            ELSE /\ taskPc' = "read"
                 /\ now' = AddU32(now, sample_delay)
                 /\ takes' = takes /\ semaCount' = semaCount]_vars
    /\ [][(taskPc = "retry" /\ taskPc' # "retry") =>
            (taskPc' = "loop" /\ xfers' = xfers /\ txn_list' = txn_list)]_vars

\* Interrupt-driven, semaphore created empty: one signal, one transaction,
\* then a take that failed; the task is in its 100 ms sleep.
C20_Witness ==
    /\ InterruptDriven
    /\ semaInit = 0
    /\ gives = 1
    /\ xfers = 1
    /\ taskPc = "retry"

(***************************************************************************)
(* SetOrientation against the running loop.                                *)
(***************************************************************************)
\* The bring-up thread is outside Init before and after this step.
OutsideInitStep == callerPc \in {"start", "idle"} /\ callerPc' = callerPc

\* C21: SetOrientation on a valid device changes only the orientation field
\* of the record (bus id, configuration, queue, task, semaphore and magic
\* stay, as does the device pointer) and stores its argument there; and the
\* loop reads the orientation once per cycle: however SetOrientation is
\* interleaved with the loop, the three axes of every published sample are
\* the table row of one orientation applied to that cycle's reading, the
\* orientation the record held when the cycle mapped its reading.
C21_OrientationReadOnce ==
    /\ [][OutsideInitStep =>
            /\ dev' = dev
            /\ d' = [d EXCEPT !.orientation = d'.orientation]
            /\ (setLast' # setLast /\ setLast'.ret = 0) =>
                    d'.orientation = setLast'.arg]_vars
    /\ [][(SendStep /\ queue = <<>>) =>
            /\ Len(queue') = 1
            /\ queue'[1].orientation = d.orientation
            /\ MatchesTable(queue'[1])]_vars
    /\ [](\A i \in 1..Len(queue) : MatchesTable(queue[i]) /\ queue[i].cycle \in 1..xfers)

\* Init stored TOP_0; SetOrientation(BOTTOM_270) came before a cycle mapped
\* its reading, so the queued sample is the BOTTOM_270 row of the reading
\* (counts 256, -256, 128 at sensitivity 1090), and the orientation has been
\* set back to TOP_0 since.
C21_Witness ==
    /\ cfg.Orientation = PIOS_HMC5983_TOP_0DEG
    /\ cfg.Gain = PIOS_HMC5983_GAIN_1_3
    /\ Len(queue) = 1
    /\ Head(queue).orientation = PIOS_HMC5983_BOTTOM_270DEG
    /\ Head(queue).x = 117 /\ Head(queue).y = -234 /\ Head(queue).z = -234
    /\ setLast.called /\ setLast.ret = 0
    /\ setLast.before = PIOS_HMC5983_BOTTOM_270DEG
    /\ d.orientation = PIOS_HMC5983_TOP_0DEG

(***************************************************************************)
(* The semaphore the interrupt handler signals.                            *)
(***************************************************************************)
\* The data-ready interrupt can reach the handler: Init has wired the
\* external interrupt.
InterruptWired == extiWired

\* Init has returned 0 for a configuration without data-ready wiring.
PolledDevice == initDone /\ initRet = 0 /\ cfg.exti_cfg = NULL

\* C22: whenever the interrupt handler signals, the data-ready semaphore it
\* signals has been created and its handle is not null: no give goes through
\* a null or never-written handle, neither when the interrupt arrives while
\* Init is between wiring the external interrupt and creating the semaphore
\* (the record already carries a valid magic and bus id), nor on a device
\* initialised for polled operation.
C22_SignalsOnlyCreatedSemaphore ==
    [][(GiveStep /\ (InterruptWired \/ PolledDevice)) =>
        (d.data_ready_sema = 1 /\ semaMade > 0 /\ ~badGive')]_vars

====
